---- MODULE Spec2Model ----
(***************************************************************************)
(* Model of resources/moves.py: the taxonomy mappings, get_english_effect, *)
(* parse_effect_data (the effect compiler) and the module-level batch loop.*)
(*                                                                         *)
(* Conventions.  A Python value that may be None is a sequence of length   *)
(* at most one: None is <<>> and a value x is <<x>>.  A Python str that    *)
(* the code searches, lowercases or rewrites (the effect text) is a        *)
(* sequence of one-character strings; tags that are only compared          *)
(* (move names, stat names, ...) are TLA+ strings.  A key that is missing  *)
(* from the provider's meta block is represented by the default the code   *)
(* passes to dict.get for it.                                              *)
(***************************************************************************)
EXTENDS Integers, Sequences, FiniteSets, TLC

VARIABLES
    move_data,        \* parse_effect_data's argument (the record being compiled)
    result,           \* what parse_effect_data returned for move_data, None before the call
    move_ids,         \* the batch driver's identifier list (needmoves.json)
    idx,              \* position of the for loop in move_ids
    pc,               \* position of the driver inside the loop body
    response,         \* outcome of the request in flight
    requests_log,     \* every identifier requested from the data provider, in order
    sleep_log,        \* for each completed iteration, whether time.sleep ran
    all_moves_data,   \* the output map, keyed by str(move_id)
    stored            \* what was written to OUTPUT_FILENAME, one element per write

vars == <<move_data, result, move_ids, idx, pc, response, requests_log,
          sleep_log, all_moves_data, stored>>

----------------------------------------------------------------------------
(* Optional values *)

None == <<>>
Some(x) == <<x>>
IsNone(o) == o = <<>>
Val(o) == o[1]

----------------------------------------------------------------------------
(* Strings as character sequences *)

UpperCase ==
    <<"A","B","C","D","E","F","G","H","I","J","K","L","M",
      "N","O","P","Q","R","S","T","U","V","W","X","Y","Z">>
LowerCase ==
    <<"a","b","c","d","e","f","g","h","i","j","k","l","m",
      "n","o","p","q","r","s","t","u","v","w","x","y","z">>

\* str.lower() on one character
LowerChar(c) ==
    IF \E k \in 1..26 : UpperCase[k] = c
    THEN LowerCase[CHOOSE k \in 1..26 : UpperCase[k] = c]
    ELSE c

\* str.lower()
Lower(s) == [k \in 1..Len(s) |-> LowerChar(s[k])]

\* s[k:].startswith(sub), k counted from 1
OccursAt(s, sub, k) ==
    /\ k >= 1
    /\ k + Len(sub) - 1 <= Len(s)
    /\ \A j \in 1..Len(sub) : s[k + j - 1] = sub[j]

\* sub in s
Contains(s, sub) == \E k \in 1..(Len(s) + 1) : OccursAt(s, sub, k)

\* re.search(a + ".*" + b, s): "." matches any character except a newline
SearchDotStar(s, a, b) ==
    \E k \in 1..Len(s) : \E m \in 1..Len(s) :
        /\ OccursAt(s, a, k)
        /\ m >= k + Len(a)
        /\ OccursAt(s, b, m)
        /\ \A j \in (k + Len(a))..(m - 1) : s[j] # "\n"

\* s.replace(old, new): non-overlapping occurrences, left to right
RECURSIVE Replace(_, _, _)
Replace(s, old, new) ==
    IF Len(s) < Len(old) THEN s
    ELSE IF OccursAt(s, old, 1)
         THEN new \o Replace(SubSeq(s, Len(old) + 1, Len(s)), old, new)
         ELSE <<s[1]>> \o Replace(Tail(s), old, new)

Digits == <<"0","1","2","3","4","5","6","7","8","9">>

\* str(n) for a non-negative int
RECURSIVE Str(_)
Str(n) ==
    IF n < 10 THEN <<Digits[n + 1]>>
    ELSE Str(n \div 10) \o <<Digits[(n % 10) + 1]>>

----------------------------------------------------------------------------
(* Taxonomy mappings *)

\* target_map.get(name, "normal_opponent")
map_target(pokeapi_target_name) ==
    CASE pokeapi_target_name = "specific-move" -> "user"
      [] pokeapi_target_name = "selected-pokemon-me-first" -> "normal_opponent"
      [] pokeapi_target_name = "ally" -> "ally"
      [] pokeapi_target_name = "users-field" -> "user_side"
      [] pokeapi_target_name = "user-or-ally" -> "user_or_ally"
      [] pokeapi_target_name = "opponents-field" -> "opponent_side"
      [] pokeapi_target_name = "user" -> "user"
      [] pokeapi_target_name = "random-opponent" -> "random_opponent"
      [] pokeapi_target_name = "all-other-pokemon" -> "all_other_pokemon"
      [] pokeapi_target_name = "selected-pokemon" -> "normal_opponent"
      [] pokeapi_target_name = "all-opponents" -> "all_adjacent_opponents"
      [] pokeapi_target_name = "entire-field" -> "whole_field"
      [] pokeapi_target_name = "user-and-allies" -> "user_and_allies"
      [] pokeapi_target_name = "all-pokemon" -> "all_pokemon"
      [] pokeapi_target_name = "all-allies" -> "all_allies"
      [] pokeapi_target_name = "fainting-pokemon" -> "target"
      [] OTHER -> "normal_opponent"

\* stat_map.get(name): None when the name is not a key
map_stat_name(pokeapi_stat_name) ==
    CASE pokeapi_stat_name = "hp" -> Some("hp")
      [] pokeapi_stat_name = "attack" -> Some("attack")
      [] pokeapi_stat_name = "defense" -> Some("defense")
      [] pokeapi_stat_name = "special-attack" -> Some("special_attack")
      [] pokeapi_stat_name = "special-defense" -> Some("special_defense")
      [] pokeapi_stat_name = "speed" -> Some("speed")
      [] pokeapi_stat_name = "accuracy" -> Some("accuracy")
      [] pokeapi_stat_name = "evasion" -> Some("evasion")
      [] OTHER -> None

\* status_map.get(name): None for "none", "unknown" and for any other name
map_status_name(pokeapi_ailment_name) ==
    CASE pokeapi_ailment_name = "paralysis" -> Some("paralysis")
      [] pokeapi_ailment_name = "sleep" -> Some("sleep")
      [] pokeapi_ailment_name = "freeze" -> Some("freeze")
      [] pokeapi_ailment_name = "burn" -> Some("burn")
      [] pokeapi_ailment_name = "poison" -> Some("poison")
      [] pokeapi_ailment_name = "confusion" -> Some("confusion")
      [] pokeapi_ailment_name = "infatuation" -> Some("infatuation")
      [] pokeapi_ailment_name = "trap" -> Some("bound")
      [] pokeapi_ailment_name = "nightmare" -> Some("nightmare")
      [] pokeapi_ailment_name = "torment" -> Some("torment")
      [] pokeapi_ailment_name = "disable" -> Some("disable")
      [] pokeapi_ailment_name = "yawn" -> Some("yawn")
      [] pokeapi_ailment_name = "heal-block" -> Some("heal_block")
      [] pokeapi_ailment_name = "no-type-immunity" -> Some("no_type_immunity")
      [] pokeapi_ailment_name = "leech-seed" -> Some("leech_seed")
      [] pokeapi_ailment_name = "embargo" -> Some("embargo")
      [] pokeapi_ailment_name = "perish-song" -> Some("perish_song")
      [] pokeapi_ailment_name = "ingrain" -> Some("ingrain")
      [] pokeapi_ailment_name = "silence" -> Some("silence")
      [] pokeapi_ailment_name = "badly-poisoned" -> Some("toxic")
      [] pokeapi_ailment_name = "none" -> None
      [] pokeapi_ailment_name = "unknown" -> None
      [] OTHER -> None

----------------------------------------------------------------------------
(* Literals of moves.py *)

DOLLAR_PLACEHOLDER ==
    <<"$", "e", "f", "f", "e", "c", "t", "_", "c", "h", "a", "n", "c", "e">>
BRACE_PLACEHOLDER ==
    <<"{", "e", "f", "f", "e", "c", "t", "_", "c", "h", "a", "n", "c", "e", "}">>
NO_ENGLISH ==
    <<"N", "o", " ", "E", "n", "g", "l", "i", "s", "h", " ", "d", "e", "s", "c", "r", "i", "p", "t", "i", "o", "n", " ", "f", "o", "u", "n", "d", ".">>
KW_paralyze ==
    <<"p", "a", "r", "a", "l", "y", "z", "e">>
KW_burn ==
    <<"b", "u", "r", "n">>
KW_freeze ==
    <<"f", "r", "e", "e", "z", "e">>
KW_poison ==
    <<"p", "o", "i", "s", "o", "n">>
KW_flinch ==
    <<"f", "l", "i", "n", "c", "h">>
KW_confuse ==
    <<"c", "o", "n", "f", "u", "s", "e">>
KW_confusion ==
    <<"c", "o", "n", "f", "u", "s", "i", "o", "n">>
KW_lower ==
    <<"l", "o", "w", "e", "r">>
KW_attack ==
    <<"a", "t", "t", "a", "c", "k">>
KW_defense ==
    <<"d", "e", "f", "e", "n", "s", "e">>
KW_special_attack ==
    <<"s", "p", "e", "c", "i", "a", "l", " ", "a", "t", "t", "a", "c", "k">>
KW_special_defense ==
    <<"s", "p", "e", "c", "i", "a", "l", " ", "d", "e", "f", "e", "n", "s", "e">>
KW_speed ==
    <<"s", "p", "e", "e", "d">>
KW_accuracy ==
    <<"a", "c", "c", "u", "r", "a", "c", "y">>

\* The first entry whose language is 'en', with '$effect_chance' rewritten
\* to the '{effect_chance}' placeholder; the fixed text when there is none.
RECURSIVE get_english_effect(_)
get_english_effect(effect_entries) ==
    IF effect_entries = <<>> THEN NO_ENGLISH
    ELSE IF Head(effect_entries).language = "en"
         THEN Replace(Head(effect_entries).effect, DOLLAR_PLACEHOLDER, BRACE_PLACEHOLDER)
         ELSE get_english_effect(Tail(effect_entries))

----------------------------------------------------------------------------
(* parse_effect_data: the hardcoded overrides *)

FieldMoves == {"light-screen", "reflect", "mist", "safeguard", "tailwind"}
HazardMoves == {"spikes", "toxic-spikes", "stealth-rock", "sticky-web"}
WeatherMoves == {"rain-dance", "sunny-day", "sandstorm", "hail"}
HealMoves == {"recover", "roost", "soft-boiled"}
FixedDamageMoves == {"seismic-toss", "night-shade"}
SwitchMoves == {"roar", "whirlwind"}

\* The names tested by the chain of early returns
OverrideMoves ==
    FieldMoves \cup HazardMoves \cup WeatherMoves \cup {"trick-room", "toxic", "swords-dance"}
        \cup HealMoves \cup FixedDamageMoves \cup SwitchMoves

field_map(move_name) ==
    CASE move_name = "light-screen" -> [type |-> "light_screen", duration |-> 5, side |-> "user"]
      [] move_name = "reflect" -> [type |-> "reflect", duration |-> 5, side |-> "user"]
      [] move_name = "mist" -> [type |-> "mist", duration |-> 5, side |-> "user"]
      [] move_name = "safeguard" -> [type |-> "safeguard", duration |-> 5, side |-> "user"]
      [] move_name = "tailwind" -> [type |-> "tailwind", duration |-> 4, side |-> "user"]

hazard_map(move_name) ==
    CASE move_name = "spikes" -> [type |-> "spikes", side |-> "opponent"]
      [] move_name = "toxic-spikes" -> [type |-> "toxic_spikes", side |-> "opponent"]
      [] move_name = "stealth-rock" -> [type |-> "stealth_rock", side |-> "opponent"]
      [] move_name = "sticky-web" -> [type |-> "sticky_web", side |-> "opponent"]

weather_map(move_name) ==
    CASE move_name = "rain-dance" -> "rain"
      [] move_name = "sunny-day" -> "harsh_sunlight"
      [] move_name = "sandstorm" -> "sandstorm"
      [] move_name = "hail" -> "hail"

FieldEffect(effect_type, duration, target_side) ==
    [type |-> "apply_field_effect",
     parameters |-> [effect_type |-> effect_type, duration |-> duration,
                     target_side |-> target_side]]

\* OverridePrimary without the swords-dance branch
OverridePrimaryNoSwordsDance(move_name) ==
    IF move_name \in FieldMoves
    THEN Some(FieldEffect(field_map(move_name).type, Some(field_map(move_name).duration),
                          field_map(move_name).side))
    ELSE IF move_name \in HazardMoves
    THEN Some(FieldEffect(hazard_map(move_name).type, None, hazard_map(move_name).side))
    ELSE IF move_name \in WeatherMoves
    THEN Some(FieldEffect(weather_map(move_name), Some(5), "whole_field"))
    ELSE IF move_name = "trick-room"
    THEN Some(FieldEffect("trick_room", Some(5), "whole_field"))
    ELSE IF move_name = "toxic"
    THEN Some([type |-> "apply_status",
               parameters |-> [status |-> "toxic", target |-> "target"]])
    ELSE IF move_name = "recover" \/ move_name = "roost" \/ move_name = "soft-boiled"
    THEN Some([type |-> "heal", parameters |-> [percent |-> 50, target |-> "user"]])
    ELSE IF move_name \in FixedDamageMoves
    THEN Some([type |-> "fixed_damage", parameters |-> [damage_source |-> "user_level"]])
    ELSE IF move_name \in SwitchMoves
    THEN Some([type |-> "switch_target", parameters |-> [none |-> TRUE]])
    ELSE None

\* The primary effect of the first override branch that matches move_name,
\* None when no branch matches
OverridePrimary(move_name) ==
    IF move_name \in FieldMoves
    THEN Some(FieldEffect(field_map(move_name).type, Some(field_map(move_name).duration),
                          field_map(move_name).side))
    ELSE IF move_name \in HazardMoves
    THEN Some(FieldEffect(hazard_map(move_name).type, None, hazard_map(move_name).side))
    ELSE IF move_name \in WeatherMoves
    THEN Some(FieldEffect(weather_map(move_name), Some(5), "whole_field"))
    ELSE IF move_name = "trick-room"
    THEN Some(FieldEffect("trick_room", Some(5), "whole_field"))
    ELSE IF move_name = "toxic"
    THEN Some([type |-> "apply_status",
               parameters |-> [status |-> "toxic", target |-> "target"]])
    ELSE IF move_name = "swords-dance"
    THEN Some([type |-> "stat_change",
               parameters |-> [changes |-> <<[stat |-> "attack", stages |-> 2]>>,
                               target |-> "user"]])
    ELSE IF move_name = "recover" \/ move_name = "roost" \/ move_name = "soft-boiled"
    THEN Some([type |-> "heal", parameters |-> [percent |-> 50, target |-> "user"]])
    ELSE IF move_name \in FixedDamageMoves
    THEN Some([type |-> "fixed_damage", parameters |-> [damage_source |-> "user_level"]])
    ELSE IF move_name \in SwitchMoves
    THEN Some([type |-> "switch_target", parameters |-> [none |-> TRUE]])
    ELSE None

----------------------------------------------------------------------------
(* parse_effect_data: the general parsing logic *)

MajorStatuses == {"toxic", "paralysis", "sleep", "freeze", "burn", "poison"}
VolatileStatuses ==
    {"confusion", "leech_seed", "bound", "infatuation", "torment", "disable",
     "yawn", "heal_block", "embargo", "perish_song", "ingrain"}

\* DamageEffect without the triple-kick correction
DamageEffectDeclaredRange(move_name, min_hits, max_hits) ==
    [type |-> "damage",
     parameters |->
        [multi_hit |->
            IF ~IsNone(min_hits) /\ ~IsNone(max_hits)
            THEN Some([min |-> Val(min_hits), max |-> Val(max_hits)])
            ELSE None]]

\* {"type": "damage", "parameters": {}} with the multi_hit range attached
\* when both hit counts are declared, forced to 3..3 for triple-kick
DamageEffect(move_name, min_hits, max_hits) ==
    [type |-> "damage",
     parameters |->
        [multi_hit |->
            IF ~IsNone(min_hits) /\ ~IsNone(max_hits)
            THEN IF move_name = "triple-kick"
                 THEN Some([min |-> 3, max |-> 3])
                 ELSE Some([min |-> Val(min_hits), max |-> Val(max_hits)])
            ELSE None]]

\* StatLoop with the target decided by the first recognised change only
RECURSIVE StatLoopFirstDecides(_, _, _)
StatLoopFirstDecides(stat_changes, changes, target) ==
    IF stat_changes = <<>> THEN [changes |-> changes, target |-> target]
    ELSE LET change == Head(stat_changes)
             stat == map_stat_name(change.stat)
         IN IF ~IsNone(stat)
            THEN StatLoopFirstDecides(Tail(stat_changes),
                          Append(changes, [stat |-> Val(stat), stages |-> change.change]),
                          IF changes # <<>> THEN target
                          ELSE IF change.change < 0 THEN "target" ELSE "user")
            ELSE StatLoopFirstDecides(Tail(stat_changes), changes, target)

\* The loop over stat_changes: the recognised changes in input order, and
\* the target as the last recognised change left it
RECURSIVE StatLoop(_, _, _)
StatLoop(stat_changes, changes, target) ==
    IF stat_changes = <<>> THEN [changes |-> changes, target |-> target]
    ELSE LET change == Head(stat_changes)
             stat == map_stat_name(change.stat)
         IN IF ~IsNone(stat)
            THEN StatLoop(Tail(stat_changes),
                          Append(changes, [stat |-> Val(stat), stages |-> change.change]),
                          IF change.change < 0 THEN "target" ELSE "user")
            ELSE StatLoop(Tail(stat_changes), changes, target)

\* The status branch of step 1: ailment, else stat changes, else healing
StatusPrimary(md) ==
    LET ailment == map_status_name(md.meta.ailment)
        loop == StatLoop(md.stat_changes, <<>>, "user")
    IN IF ~IsNone(ailment) /\ md.meta.ailment_chance = 0
       THEN IF Val(ailment) \in VolatileStatuses
            THEN Some([type |-> "apply_volatile_status",
                       parameters |-> [status |-> Val(ailment), target |-> "target"]])
            ELSE IF Val(ailment) \in MajorStatuses
            THEN Some([type |-> "apply_status",
                       parameters |-> [status |-> Val(ailment), target |-> "target"]])
            ELSE None
       ELSE IF md.stat_changes # <<>> /\ md.meta.stat_chance = 0
       THEN IF loop.changes # <<>>
            THEN Some([type |-> "stat_change",
                       parameters |-> [changes |-> loop.changes, target |-> loop.target]])
            ELSE None
       ELSE IF md.meta.healing > 0
       THEN Some([type |-> "heal",
                  parameters |-> [percent |-> md.meta.healing, target |-> "user"]])
       ELSE None

\* StructuredPrimary with the status branch tried whatever the damage class
StructuredPrimaryStatusFirst(md) ==
    IF ~IsNone(StatusPrimary(md))
    THEN StatusPrimary(md)
    ELSE IF md.damage_class \in {"physical", "special"} /\ ~IsNone(md.power)
    THEN Some(DamageEffect(md.name, md.meta.min_hits, md.meta.max_hits))
    ELSE None

\* Step 1: the primary effect, None when no branch sets it
StructuredPrimary(md) ==
    IF md.damage_class \in {"physical", "special"} /\ ~IsNone(md.power)
    THEN Some(DamageEffect(md.name, md.meta.min_hits, md.meta.max_hits))
    ELSE IF md.damage_class = "status"
    THEN StatusPrimary(md)
    ELSE None

\* DefaultPrimary without the unknown_status sentinel
DefaultPrimaryNoSentinel(md) ==
    IF md.damage_class \in {"physical", "special"}
    THEN Some(DamageEffect(md.name, md.meta.min_hits, md.meta.max_hits))
    ELSE None

\* The default taken when step 1 left primary_effect None
DefaultPrimary(md) ==
    IF md.damage_class \in {"physical", "special"}
    THEN Some(DamageEffect(md.name, md.meta.min_hits, md.meta.max_hits))
    ELSE Some([type |-> "unknown_status", parameters |-> [none |-> TRUE]])

\* primary_effect after step 1 and the default
PrimaryEffect(md) ==
    IF IsNone(StructuredPrimary(md)) THEN DefaultPrimary(md) ELSE StructuredPrimary(md)

\* The ailment candidate of step 2
AilmentCandidate(md) ==
    LET ailment == map_status_name(md.meta.ailment)
        status_type ==
            IF IsNone(ailment) THEN None
            ELSE IF Val(ailment) \in MajorStatuses THEN Some("apply_status")
            ELSE IF Val(ailment) \in VolatileStatuses THEN Some("apply_volatile_status")
            ELSE None
    IN IF ~IsNone(ailment) /\ md.meta.ailment_chance > 0 /\ ~IsNone(status_type)
       THEN <<[chance |-> md.meta.ailment_chance,
               effect |-> [type |-> Val(status_type),
                           parameters |-> [status |-> Val(ailment), target |-> "target"]]]>>
       ELSE <<>>

\* The stat-change candidate of step 2
StatCandidate(md) ==
    LET loop == StatLoop(md.stat_changes, <<>>, "target")
    IN IF md.stat_changes # <<>> /\ md.meta.stat_chance > 0 /\ loop.changes # <<>>
       THEN <<[chance |-> md.meta.stat_chance,
               effect |-> [type |-> "stat_change",
                           parameters |-> [changes |-> loop.changes,
                                           target |-> loop.target]]]>>
       ELSE <<>>

\* FlinchCandidate with the test flinch_chance >= 0
FlinchCandidateZeroAllowed(md) ==
    IF md.meta.flinch_chance >= 0
    THEN <<[chance |-> md.meta.flinch_chance,
            effect |-> [type |-> "apply_volatile_status",
                        parameters |-> [status |-> "flinch", target |-> "target"]]]>>
    ELSE <<>>

\* The flinch candidate of step 2
FlinchCandidate(md) ==
    IF md.meta.flinch_chance > 0
    THEN <<[chance |-> md.meta.flinch_chance,
            effect |-> [type |-> "apply_volatile_status",
                        parameters |-> [status |-> "flinch", target |-> "target"]]]>>
    ELSE <<>>

\* secondary_candidates, in the order the code appends them
SecondaryCandidates(md) ==
    AilmentCandidate(md) \o StatCandidate(md) \o FlinchCandidate(md)

\* StructuredSecondary taking secondary_candidates[-1]
StructuredSecondaryLast(md) ==
    IF SecondaryCandidates(md) # <<>>
    THEN Some(SecondaryCandidates(md)[Len(SecondaryCandidates(md))])
    ELSE None

\* secondary_effect after step 2: secondary_candidates[0], or None
StructuredSecondary(md) ==
    IF SecondaryCandidates(md) # <<>> THEN Some(SecondaryCandidates(md)[1]) ELSE None

StatusEffect(type, status) ==
    [type |-> type, parameters |-> [status |-> status, target |-> "target"]]

StatDrop(stat) ==
    [type |-> "stat_change",
     parameters |-> [changes |-> <<[stat |-> stat, stages |-> -1]>>, target |-> "target"]]

\* InferSecondary with the special attack / special defense rules tested
\* before the attack / defense rules
InferSecondarySpecialFirst(desc_lower) ==
    IF Contains(desc_lower, KW_paralyze) THEN Some(StatusEffect("apply_status", "paralysis"))
    ELSE IF Contains(desc_lower, KW_burn) THEN Some(StatusEffect("apply_status", "burn"))
    ELSE IF Contains(desc_lower, KW_freeze) THEN Some(StatusEffect("apply_status", "freeze"))
    ELSE IF Contains(desc_lower, KW_poison) THEN Some(StatusEffect("apply_status", "poison"))
    ELSE IF Contains(desc_lower, KW_flinch)
    THEN Some(StatusEffect("apply_volatile_status", "flinch"))
    ELSE IF Contains(desc_lower, KW_confuse) \/ Contains(desc_lower, KW_confusion)
    THEN Some(StatusEffect("apply_volatile_status", "confusion"))
    ELSE IF SearchDotStar(desc_lower, KW_lower, KW_special_attack)
    THEN Some(StatDrop("special_attack"))
    ELSE IF SearchDotStar(desc_lower, KW_lower, KW_special_defense)
    THEN Some(StatDrop("special_defense"))
    ELSE IF SearchDotStar(desc_lower, KW_lower, KW_attack) THEN Some(StatDrop("attack"))
    ELSE IF SearchDotStar(desc_lower, KW_lower, KW_defense) THEN Some(StatDrop("defense"))
    ELSE IF SearchDotStar(desc_lower, KW_lower, KW_speed) THEN Some(StatDrop("speed"))
    ELSE IF SearchDotStar(desc_lower, KW_lower, KW_accuracy) THEN Some(StatDrop("accuracy"))
    ELSE None

\* inferred_secondary: the first rule of the if/elif chain that matches
InferSecondary(desc_lower) ==
    IF Contains(desc_lower, KW_paralyze) THEN Some(StatusEffect("apply_status", "paralysis"))
    ELSE IF Contains(desc_lower, KW_burn) THEN Some(StatusEffect("apply_status", "burn"))
    ELSE IF Contains(desc_lower, KW_freeze) THEN Some(StatusEffect("apply_status", "freeze"))
    ELSE IF Contains(desc_lower, KW_poison) THEN Some(StatusEffect("apply_status", "poison"))
    ELSE IF Contains(desc_lower, KW_flinch)
    THEN Some(StatusEffect("apply_volatile_status", "flinch"))
    ELSE IF Contains(desc_lower, KW_confuse) \/ Contains(desc_lower, KW_confusion)
    THEN Some(StatusEffect("apply_volatile_status", "confusion"))
    ELSE IF SearchDotStar(desc_lower, KW_lower, KW_attack) THEN Some(StatDrop("attack"))
    ELSE IF SearchDotStar(desc_lower, KW_lower, KW_defense) THEN Some(StatDrop("defense"))
    ELSE IF SearchDotStar(desc_lower, KW_lower, KW_special_attack)
    THEN Some(StatDrop("special_attack"))
    ELSE IF SearchDotStar(desc_lower, KW_lower, KW_special_defense)
    THEN Some(StatDrop("special_defense"))
    ELSE IF SearchDotStar(desc_lower, KW_lower, KW_speed) THEN Some(StatDrop("speed"))
    ELSE IF SearchDotStar(desc_lower, KW_lower, KW_accuracy) THEN Some(StatDrop("accuracy"))
    ELSE None

\* FinalSecondary searching the description without lowercasing it
FinalSecondaryCaseSensitive(md, description) ==
    LET secondary_effect == StructuredSecondary(md)
        inferred_secondary == InferSecondary(description)
    IN IF IsNone(secondary_effect) /\ ~IsNone(md.effect_chance) /\ Val(md.effect_chance) > 0
       THEN IF ~IsNone(inferred_secondary)
            THEN Some([chance |-> Val(md.effect_chance), effect |-> Val(inferred_secondary)])
            ELSE secondary_effect
       ELSE secondary_effect

\* secondary_effect after the cleanup based on effect_chance
FinalSecondary(md, description) ==
    LET secondary_effect == StructuredSecondary(md)
        inferred_secondary == InferSecondary(Lower(description))
    IN IF IsNone(secondary_effect) /\ ~IsNone(md.effect_chance) /\ Val(md.effect_chance) > 0
       THEN IF ~IsNone(inferred_secondary)
            THEN Some([chance |-> Val(md.effect_chance), effect |-> Val(inferred_secondary)])
            ELSE secondary_effect
       ELSE secondary_effect

\* display_chance
DisplayChance(secondary_effect, effect_chance) ==
    IF ~IsNone(secondary_effect) THEN Str(Val(secondary_effect).chance)
    ELSE IF ~IsNone(effect_chance) THEN Str(Val(effect_chance))
    ELSE <<"0">>

\* The value parse_effect_data returns, with the locals the claims speak of
parse_effect_data(md) ==
    LET description == get_english_effect(md.effect_entries)
    IN IF ~IsNone(OverridePrimary(md.name))
       THEN [primary_effect |-> OverridePrimary(md.name),
             secondary_effect |-> None,
             description |-> Replace(description, BRACE_PLACEHOLDER, <<"0">>),
             secondary_candidates |-> <<>>,
             display_chance |-> <<"0">>]
       ELSE LET secondary_effect == FinalSecondary(md, description)
                display_chance == DisplayChance(secondary_effect, md.effect_chance)
            IN [primary_effect |-> PrimaryEffect(md),
                secondary_effect |-> secondary_effect,
                description |-> Replace(description, BRACE_PLACEHOLDER, display_chance),
                secondary_candidates |-> SecondaryCandidates(md),
                display_chance |-> display_chance]

----------------------------------------------------------------------------
(* Effect texts the provider can return (inputs) *)

\* $effect_chance% to Paralyze.
TxtParalyze ==
    <<"$", "e", "f", "f", "e", "c", "t", "_", "c", "h", "a", "n", "c", "e", "%", " ", "t", "o", " ", "P", "a", "r", "a", "l", "y", "z", "e", ".">>
\* $effect_chance% may cause paralysis.
TxtMayCauseParalysis ==
    <<"$", "e", "f", "f", "e", "c", "t", "_", "c", "h", "a", "n", "c", "e", "%", " ", "m", "a", "y", " ", "c", "a", "u", "s", "e", " ", "p", "a", "r", "a", "l", "y", "s", "i", "s", ".">>
\* May Burn or freeze.
TxtBurnFreeze ==
    <<"M", "a", "y", " ", "B", "u", "r", "n", " ", "o", "r", " ", "f", "r", "e", "e", "z", "e", ".">>
\* $effect_chance% to flinch, confusion.
TxtFlinchConfuse ==
    <<"$", "e", "f", "f", "e", "c", "t", "_", "c", "h", "a", "n", "c", "e", "%", " ", "t", "o", " ", "f", "l", "i", "n", "c", "h", ",", " ", "c", "o", "n", "f", "u", "s", "i", "o", "n", ".">>
\* Lowers Special Attack $effect_chance%.
TxtLowerSpAtk ==
    <<"L", "o", "w", "e", "r", "s", " ", "S", "p", "e", "c", "i", "a", "l", " ", "A", "t", "t", "a", "c", "k", " ", "$", "e", "f", "f", "e", "c", "t", "_", "c", "h", "a", "n", "c", "e", "%", ".">>
\* lower special defense.
TxtLowerSpDef ==
    <<"l", "o", "w", "e", "r", " ", "s", "p", "e", "c", "i", "a", "l", " ", "d", "e", "f", "e", "n", "s", "e", ".">>
\* $effect_chance%: lowers Speed.
TxtLowerSpeed ==
    <<"$", "e", "f", "f", "e", "c", "t", "_", "c", "h", "a", "n", "c", "e", "%", ":", " ", "l", "o", "w", "e", "r", "s", " ", "S", "p", "e", "e", "d", ".">>
\* Lowers accuracy.
TxtLowerAccuracy ==
    <<"L", "o", "w", "e", "r", "s", " ", "a", "c", "c", "u", "r", "a", "c", "y", ".">>
\* Lowers user HP.\nRaises attack.
TxtLowerNewline ==
    <<"L", "o", "w", "e", "r", "s", " ", "u", "s", "e", "r", " ", "H", "P", ".", "\n", "R", "a", "i", "s", "e", "s", " ", "a", "t", "t", "a", "c", "k", ".">>
\* Badly poisons $effect_chance% {effect_chance}.
TxtPoison ==
    <<"B", "a", "d", "l", "y", " ", "p", "o", "i", "s", "o", "n", "s", " ", "$", "e", "f", "f", "e", "c", "t", "_", "c", "h", "a", "n", "c", "e", "%", " ", "{", "e", "f", "f", "e", "c", "t", "_", "c", "h", "a", "n", "c", "e", "}", ".">>
\* Inflicts damage.
TxtPlain ==
    <<"I", "n", "f", "l", "i", "c", "t", "s", " ", "d", "a", "m", "a", "g", "e", ".">>
\* Crits $effect_chance%.
TxtCrit ==
    <<"C", "r", "i", "t", "s", " ", "$", "e", "f", "f", "e", "c", "t", "_", "c", "h", "a", "n", "c", "e", "%", ".">>
\* Paralyse $effect_chance%.
TxtFrench ==
    <<"P", "a", "r", "a", "l", "y", "s", "e", " ", "$", "e", "f", "f", "e", "c", "t", "_", "c", "h", "a", "n", "c", "e", "%", ".">>

----------------------------------------------------------------------------
(* Bounds and input records *)

\* Longest stat_changes list of an input record
MaxStatChanges == 2
\* Largest number of identifiers in needmoves.json
MaxIds == 3

\* A raw move record as the provider's JSON gives it
Record(id, name, damage_class, power, meta, stat_changes, effect_entries, effect_chance) ==
    [id |-> id, name |-> name, accuracy |-> Some(100), power |-> power, pp |-> 10,
     priority |-> 0, type |-> "normal", damage_class |-> damage_class,
     target |-> "selected-pokemon", meta |-> meta,
     stat_changes |-> stat_changes, effect_entries |-> effect_entries,
     effect_chance |-> effect_chance]

\* The meta block; hits is the pair <<min_hits, max_hits>>
Meta(ailment, ailment_chance, healing, stat_chance, flinch_chance, hits) ==
    [ailment |-> ailment, ailment_chance |-> ailment_chance, healing |-> healing,
     stat_chance |-> stat_chance, flinch_chance |-> flinch_chance,
     min_hits |-> hits[1], max_hits |-> hits[2]]

DamageClasses == {"physical", "special", "status"}

StatChangeEntries ==
    {[stat |-> "attack", change |-> 2], [stat |-> "defense", change |-> -1],
     [stat |-> "speed", change |-> 0], [stat |-> "bogus", change |-> -1]}

StatChangeLists(entries, n) == UNION {[1..k -> entries] : k \in 0..n}

En(text) == [language |-> "en", effect |-> text]
Fr(text) == [language |-> "fr", effect |-> text]

HitCounts == {<<None, None>>, <<Some(2), Some(5)>>, <<Some(1), None>>}

\* Inputs that vary what step 1 (the primary effect) reads
PrimaryInputs ==
    {Record(1, n, dc, p, Meta(a, ac, h, stc, 0, hits), sc, <<En(TxtPlain)>>, None) :
        n \in {"tackle", "triple-kick", "seismic-toss"},
        dc \in DamageClasses,
        p \in {None, Some(40)},
        a \in {"none", "paralysis", "trap", "nightmare", "badly-poisoned", "bizarre-tag"},
        ac \in {0, 30},
        h \in {0, 50},
        sc \in StatChangeLists(StatChangeEntries, MaxStatChanges),
        stc \in {0, 30},
        hits \in HitCounts}

\* Inputs that vary what step 2 and the cleanup (the secondary effect) read
SecondaryInputs ==
    {Record(1, n, dc, Some(40), Meta(a, ac, 0, stc, fc, <<None, None>>), sc, <<En(t)>>, ec) :
        n \in {"tackle", "toxic"},
        dc \in DamageClasses,
        a \in {"none", "paralysis", "trap", "nightmare", "badly-poisoned"},
        ac \in {0, 1, 100},
        sc \in StatChangeLists({[stat |-> "defense", change |-> -1],
                                [stat |-> "bogus", change |-> 1]}, MaxStatChanges),
        stc \in {0, 30},
        fc \in {0, 30},
        t \in {TxtParalyze, TxtCrit, TxtLowerSpeed},
        ec \in {None, Some(0), Some(10), Some(100)}}

\* Inputs that vary everything an override must ignore
OverrideInputs ==
    {Record(1, n, dc, p, Meta(a, ac, h, stc, fc, <<None, None>>), sc, es, ec) :
        n \in OverrideMoves \cup {"tackle", "triple-kick"},
        dc \in DamageClasses,
        p \in {None, Some(40)},
        a \in {"none", "paralysis"},
        ac \in {0, 30},
        h \in {0, 50},
        sc \in {<<>>, <<[stat |-> "attack", change |-> -1]>>},
        stc \in {0, 30},
        fc \in {0, 30},
        es \in {<<En(TxtParalyze)>>, <<Fr(TxtFrench), En(TxtPoison)>>, <<Fr(TxtFrench)>>},
        ec \in {None, Some(10)}}

EffectTexts ==
    {TxtParalyze, TxtMayCauseParalysis, TxtBurnFreeze, TxtFlinchConfuse, TxtLowerSpAtk,
     TxtLowerSpDef, TxtLowerSpeed, TxtLowerAccuracy, TxtLowerNewline, TxtPoison,
     TxtPlain, TxtCrit}

\* Inputs that vary what the text inference reads
TextInputs ==
    {Record(1, n, dc, Some(40), Meta(a, ac, 0, stc, fc, <<None, None>>), sc, es, ec) :
        n \in {"tackle", "recover"},
        dc \in {"physical", "status"},
        a \in {"none", "paralysis"},
        ac \in {0, 30},
        sc \in {<<>>, <<[stat |-> "attack", change |-> -1]>>},
        stc \in {0, 30},
        fc \in {0, 30},
        es \in {<<En(t)>> : t \in EffectTexts}
                 \cup {<<Fr(TxtFrench), En(TxtParalyze)>>, <<Fr(TxtFrench)>>},
        ec \in {None, Some(0), Some(10), Some(100)}}

----------------------------------------------------------------------------
(* The compiler as a state machine: one call of parse_effect_data *)

EmptyDict == [k \in {} |-> None]

InitCompile(inputs) ==
    /\ move_data \in inputs
    /\ result = None
    /\ pc = "call"
    /\ move_ids = <<>>
    /\ idx = 1
    /\ response = None
    /\ requests_log = <<>>
    /\ sleep_log = <<>>
    /\ all_moves_data = EmptyDict
    /\ stored = <<>>

\* primary_effect, secondary_effect, description = parse_effect_data(move_data)
Compile ==
    /\ pc = "call"
    /\ result' = Some(parse_effect_data(move_data))
    /\ pc' = "returned"
    /\ UNCHANGED <<move_data, move_ids, idx, response, requests_log, sleep_log,
                   all_moves_data, stored>>

NextCompile == Compile

Spec == InitCompile(PrimaryInputs) /\ [][NextCompile]_vars
SpecSecondary == InitCompile(SecondaryInputs) /\ [][NextCompile]_vars
SpecOverride == InitCompile(OverrideInputs) /\ [][NextCompile]_vars
SpecText == InitCompile(TextInputs) /\ [][NextCompile]_vars

Returned == pc = "returned"
Out == Val(result)

----------------------------------------------------------------------------
(* The batch driver: the module-level loop over move_ids and the final write *)

\* needmoves.json as needmoves.py writes it: sorted, without duplicates
MoveIdPool == 8..(7 + MaxIds)
MoveIdLists ==
    {ids \in UNION {[1..k -> MoveIdPool] : k \in 0..MaxIds} :
        \A k \in 1..(Len(ids) - 1) : ids[k] < ids[k + 1]}

\* The documents the provider can answer a request for move_id with
ProviderRecords(move_id) ==
    {Record(move_id, "thunder-punch", "physical", Some(75),
            Meta("paralysis", 10, 0, 0, 0, <<None, None>>),
            <<>>, <<En(TxtParalyze)>>, Some(10)),
     Record(move_id, "swords-dance", "status", None,
            Meta("none", 0, 0, 0, 0, <<None, None>>),
            <<[stat |-> "attack", change |-> 2]>>, <<Fr(TxtFrench), En(TxtPlain)>>, None),
     Record(move_id, "struggle", "physical", Some(50),
            Meta("none", 0, 0, 0, 0, <<None, None>>),
            <<>>, <<>>, None)}

\* The outcomes of requests.get, raise_for_status and response.json():
\* a RequestException, or a document; missing_key says that the document
\* lacks a key the code subscripts (move_data['power'], ...), so that
\* processing it raises KeyError
ProviderResponses(move_id) ==
    {[kind |-> "request_exception", missing_key |-> FALSE, data |-> None]}
        \cup {[kind |-> "json", missing_key |-> m, data |-> Some(r)] :
                m \in BOOLEAN, r \in ProviderRecords(move_id)}

InitBatch ==
    /\ move_ids \in MoveIdLists
    /\ idx = 1
    /\ pc = "request"
    /\ response = None
    /\ requests_log = <<>>
    /\ sleep_log = <<>>
    /\ all_moves_data = EmptyDict
    /\ stored = <<>>
    /\ move_data = None
    /\ result = None

\* The entry the loop stores for a compiled record
move_output(md, parsed) ==
    [id |-> md.id,
     name |-> md.name,
     accuracy |-> md.accuracy,
     power |-> md.power,
     pp |-> md.pp,
     priority |-> md.priority,
     type |-> md.type,
     damage_class |-> md.damage_class,
     target |-> map_target(md.target),
     effect |-> Val(parsed.primary_effect),
     secondary_effect |-> parsed.secondary_effect,
     description |-> parsed.description]

\* d[key] = value on a dict
DictSet(d, key, value) ==
    [k \in DOMAIN d \cup {key} |-> IF k = key THEN value ELSE d[k]]

\* for move_id in move_ids: ... requests.get(url) ... response.json()
Request ==
    /\ pc = "request"
    /\ idx <= Len(move_ids)
    /\ \E r \in ProviderResponses(move_ids[idx]) :
        /\ response' = Some(r)
        /\ requests_log' = Append(requests_log, [move_id |-> move_ids[idx], response |-> r])
    /\ pc' = "respond"
    /\ UNCHANGED <<move_data, result, move_ids, idx, sleep_log, all_moves_data, stored>>

\* FetchError with the exception left uncaught: the script ends
FetchErrorUncaught ==
    /\ pc = "respond"
    /\ Val(response).kind = "request_exception"
    /\ pc' = "done"
    /\ UNCHANGED <<move_data, result, move_ids, idx, response, requests_log, sleep_log,
                   all_moves_data, stored>>

\* except requests.exceptions.RequestException: print, fall through to the sleep
FetchError ==
    /\ pc = "respond"
    /\ Val(response).kind = "request_exception"
    /\ pc' = "sleep"
    /\ UNCHANGED <<move_data, result, move_ids, idx, response, requests_log, sleep_log,
                   all_moves_data, stored>>

\* if not move_data.get('effect_entries'): print, continue (the sleep at the
\* end of the loop body is not reached)
SkipNoEntries ==
    /\ pc = "respond"
    /\ Val(response).kind = "json"
    /\ Val(Val(response).data).effect_entries = <<>>
    /\ sleep_log' = Append(sleep_log, FALSE)
    /\ idx' = idx + 1
    /\ pc' = "request"
    /\ UNCHANGED <<move_data, result, move_ids, response, requests_log, all_moves_data,
                   stored>>

\* parse_effect_data, move_output and all_moves_data[str(move_id)] = move_output
Process ==
    /\ pc = "respond"
    /\ Val(response).kind = "json"
    /\ Val(Val(response).data).effect_entries # <<>>
    /\ ~Val(response).missing_key
    /\ move_data' = Val(Val(response).data)
    /\ result' = Some(parse_effect_data(move_data'))
    /\ all_moves_data' = DictSet(all_moves_data, Str(move_ids[idx]),
                                 move_output(move_data', Val(result')))
    /\ pc' = "sleep"
    /\ UNCHANGED <<move_ids, idx, response, requests_log, sleep_log, stored>>

\* except Exception: print, fall through to the sleep
ProcessError ==
    /\ pc = "respond"
    /\ Val(response).kind = "json"
    /\ Val(Val(response).data).effect_entries # <<>>
    /\ Val(response).missing_key
    /\ pc' = "sleep"
    /\ UNCHANGED <<move_data, result, move_ids, idx, response, requests_log, sleep_log,
                   all_moves_data, stored>>

\* time.sleep(REQUEST_DELAY), then the next iteration
Sleep ==
    /\ pc = "sleep"
    /\ sleep_log' = Append(sleep_log, TRUE)
    /\ idx' = idx + 1
    /\ pc' = "request"
    /\ UNCHANGED <<move_data, result, move_ids, response, requests_log, all_moves_data,
                   stored>>

\* The loop is exhausted: print the count
LoopEnd ==
    /\ pc = "request"
    /\ idx > Len(move_ids)
    /\ pc' = "write"
    /\ UNCHANGED <<move_data, result, move_ids, idx, response, requests_log, sleep_log,
                   all_moves_data, stored>>

\* with open(OUTPUT_FILENAME, 'w'): json.dump(all_moves_data); an IOError is
\* printed and nothing is retried
Write ==
    /\ pc = "write"
    /\ \E io_error \in BOOLEAN :
        stored' = Append(stored, [data |-> all_moves_data, io_error |-> io_error])
    /\ pc' = "done"
    /\ UNCHANGED <<move_data, result, move_ids, idx, response, requests_log, sleep_log,
                   all_moves_data>>

NextBatch ==
    \/ Request
    \/ FetchError
    \/ SkipNoEntries
    \/ Process
    \/ ProcessError
    \/ Sleep
    \/ LoopEnd
    \/ Write

SpecBatch == InitBatch /\ [][NextBatch]_vars

----------------------------------------------------------------------------
(* Properties of the primary effect, checked under Spec *)

EffectTypes ==
    {"damage", "apply_status", "apply_volatile_status", "stat_change", "heal",
     "fixed_damage", "switch_target", "apply_field_effect", "unknown_status"}

Primary == Out.primary_effect
IsOverride == move_data.name \in OverrideMoves
DeterministicAilment ==
    ~IsNone(map_status_name(move_data.meta.ailment)) /\ move_data.meta.ailment_chance = 0

\* A status-class record with no override and no deterministic ailment,
\* stat-change or healing signal
NoPrimarySignal ==
    /\ ~IsOverride
    /\ move_data.damage_class = "status"
    /\ ~DeterministicAilment
    /\ (move_data.stat_changes = <<>> \/ move_data.meta.stat_chance # 0)
    /\ move_data.meta.healing <= 0

\* C1: the primary effect returned by parse_effect_data is never None and its
\* type is one of the nine effect types; a status-class record is never
\* given a damage-family type, and one with no override and no deterministic
\* ailment, stat-change or healing signal gets the unknown_status sentinel.
C1_PrimaryNeverAbsent ==
    Returned =>
        /\ ~IsNone(Primary)
        /\ Val(Primary).type \in EffectTypes
        /\ (move_data.damage_class = "status" /\ ~IsOverride =>
                Val(Primary).type \in {"apply_status", "apply_volatile_status",
                                       "stat_change", "heal", "unknown_status"})
        /\ (NoPrimarySignal => Val(Primary).type = "unknown_status")

C1_Witness ==
    /\ Returned
    /\ NoPrimarySignal
    /\ move_data.stat_changes # <<>>
    /\ Primary = Some([type |-> "unknown_status", parameters |-> [none |-> TRUE]])

DamagingWithPower ==
    move_data.damage_class \in {"physical", "special"} /\ ~IsNone(move_data.power)

\* C3 as stated: any physical or special record with a defined power, whatever
\* its move name, compiles to a primary effect of type damage.
C3_DamageWhateverName ==
    Returned /\ DamagingWithPower => Val(Primary).type = "damage"

\* C3 amended: a physical or special record with a defined power whose name
\* is not in the override table compiles to a primary effect of type damage.
C3_DamageUnlessOverride ==
    Returned /\ DamagingWithPower /\ ~IsOverride => Val(Primary).type = "damage"

C3_Witness ==
    /\ Returned
    /\ DamagingWithPower
    /\ move_data.name = "tackle"
    /\ DeterministicAilment
    /\ Val(Primary).type = "damage"

\* C5 as stated: a triple-kick record always compiles to a primary effect
\* with multi_hit exactly {min 3, max 3}, also when the record declares no
\* hit counts (read on the damaging records, where triple-kick belongs).
C5_TripleKickAlways ==
    Returned /\ move_data.name = "triple-kick"
             /\ move_data.damage_class \in {"physical", "special"} =>
        /\ Val(Primary).type = "damage"
        /\ Val(Primary).parameters.multi_hit = Some([min |-> 3, max |-> 3])

\* C5 amended: a physical or special triple-kick record that declares both a
\* min and a max hit count compiles to damage with multi_hit exactly
\* {min 3, max 3}, whatever the declared counts; without both counts the
\* damage effect carries no multi_hit range.
C5_TripleKickDeclared ==
    Returned /\ move_data.name = "triple-kick"
             /\ move_data.damage_class \in {"physical", "special"} =>
        /\ Val(Primary).type = "damage"
        /\ Val(Primary).parameters.multi_hit =
              IF ~IsNone(move_data.meta.min_hits) /\ ~IsNone(move_data.meta.max_hits)
              THEN Some([min |-> 3, max |-> 3])
              ELSE None

C5_Witness ==
    /\ Returned
    /\ move_data.name = "triple-kick"
    /\ move_data.damage_class = "physical"
    /\ move_data.meta.min_hits = Some(2)
    /\ move_data.meta.max_hits = Some(5)
    /\ Val(Primary).parameters.multi_hit = Some([min |-> 3, max |-> 3])

\* The volatile statuses as the specification lists them
ListedVolatile ==
    {"confusion", "bound", "infatuation", "torment", "disable", "yawn", "heal_block",
     "embargo", "perish_song", "ingrain", "leech_seed", "nightmare"}

\* C8: a non-override status-class record whose ailment normalizes to a
\* status and whose ailment chance is 0 compiles to apply_volatile_status of
\* that status when it is a listed volatile status, to apply_status of it
\* otherwise, on the target.
C8_DeterministicAilment ==
    Returned /\ ~IsOverride /\ move_data.damage_class = "status" /\ DeterministicAilment =>
        LET status == Val(map_status_name(move_data.meta.ailment))
        IN Primary =
            Some([type |-> IF status \in ListedVolatile THEN "apply_volatile_status"
                           ELSE "apply_status",
                  parameters |-> [status |-> status, target |-> "target"]])

\* The recognised stat changes of the input, in input order
RecognisedChanges ==
    SelectSeq(move_data.stat_changes, LAMBDA c : ~IsNone(map_stat_name(c.stat)))
CanonicalChanges ==
    [k \in 1..Len(RecognisedChanges) |->
        [stat |-> Val(map_stat_name(RecognisedChanges[k].stat)),
         stages |-> RecognisedChanges[k].change]]

DeterministicStatChange ==
    /\ ~IsOverride
    /\ move_data.damage_class = "status"
    /\ ~DeterministicAilment
    /\ move_data.stat_changes # <<>>
    /\ move_data.meta.stat_chance = 0

\* C9 as stated: such a record compiles to stat_change with the recognised
\* changes in input order, on user when the first change is positive and on
\* target when it is negative, whatever the later changes are (read on the
\* records that have a recognised change, so that there is a first one).
C9_FirstChangeDecides ==
    Returned /\ DeterministicStatChange /\ RecognisedChanges # <<>> =>
        /\ Val(Primary).type = "stat_change"
        /\ Val(Primary).parameters.changes = CanonicalChanges
        /\ (RecognisedChanges[1].change > 0 => Val(Primary).parameters.target = "user")
        /\ (RecognisedChanges[1].change < 0 => Val(Primary).parameters.target = "target")

\* C9 amended: such a record with at least one recognised stat change
\* compiles to stat_change with the recognised changes in input order, and
\* the LAST recognised change decides the target: target when its stage delta
\* is negative, user otherwise; with no recognised change the primary effect
\* is unknown_status.
C9_LastChangeDecides ==
    Returned /\ DeterministicStatChange =>
        IF RecognisedChanges = <<>>
        THEN Val(Primary).type = "unknown_status"
        ELSE /\ Val(Primary).type = "stat_change"
             /\ Val(Primary).parameters.changes = CanonicalChanges
             /\ Val(Primary).parameters.target =
                    IF RecognisedChanges[Len(RecognisedChanges)].change < 0
                    THEN "target" ELSE "user"

C9_Witness ==
    /\ Returned
    /\ DeterministicStatChange
    /\ Len(RecognisedChanges) = 2
    /\ RecognisedChanges[1].change > 0
    /\ RecognisedChanges[2].change < 0
    /\ Val(Primary).type = "stat_change"
    /\ Val(Primary).parameters.target = "target"

----------------------------------------------------------------------------
(* Properties of the overrides, checked under SpecOverride *)

Field(effect_type, duration, target_side) ==
    [type |-> "apply_field_effect",
     parameters |-> [effect_type |-> effect_type, duration |-> duration,
                     target_side |-> target_side]]

\* The override table as the specification gives it
TableDescriptor(name) ==
    CASE name = "light-screen" -> Field("light_screen", Some(5), "user")
      [] name = "reflect" -> Field("reflect", Some(5), "user")
      [] name = "mist" -> Field("mist", Some(5), "user")
      [] name = "safeguard" -> Field("safeguard", Some(5), "user")
      [] name = "tailwind" -> Field("tailwind", Some(4), "user")
      [] name = "spikes" -> Field("spikes", None, "opponent")
      [] name = "toxic-spikes" -> Field("toxic_spikes", None, "opponent")
      [] name = "stealth-rock" -> Field("stealth_rock", None, "opponent")
      [] name = "sticky-web" -> Field("sticky_web", None, "opponent")
      [] name = "rain-dance" -> Field("rain", Some(5), "whole_field")
      [] name = "sunny-day" -> Field("harsh_sunlight", Some(5), "whole_field")
      [] name = "sandstorm" -> Field("sandstorm", Some(5), "whole_field")
      [] name = "hail" -> Field("hail", Some(5), "whole_field")
      [] name = "trick-room" -> Field("trick_room", Some(5), "whole_field")
      [] name = "toxic" ->
            [type |-> "apply_status", parameters |-> [status |-> "toxic", target |-> "target"]]
      [] name = "swords-dance" ->
            [type |-> "stat_change",
             parameters |-> [changes |-> <<[stat |-> "attack", stages |-> 2]>>,
                             target |-> "user"]]
      [] name \in {"recover", "roost", "soft-boiled"} ->
            [type |-> "heal", parameters |-> [percent |-> 50, target |-> "user"]]
      [] name \in {"seismic-toss", "night-shade"} ->
            [type |-> "fixed_damage", parameters |-> [damage_source |-> "user_level"]]
      [] name \in {"roar", "whirlwind"} ->
            [type |-> "switch_target", parameters |-> [none |-> TRUE]]

TableNames ==
    {"light-screen", "reflect", "mist", "safeguard", "tailwind", "spikes", "toxic-spikes",
     "stealth-rock", "sticky-web", "rain-dance", "sunny-day", "sandstorm", "hail",
     "trick-room", "toxic", "swords-dance", "recover", "roost", "soft-boiled",
     "seismic-toss", "night-shade", "roar", "whirlwind"}

\* The English effect text with the chance placeholder put in
Template == get_english_effect(move_data.effect_entries)

\* C2: for a record whose name is in the override table the primary effect
\* is the table's descriptor, the secondary effect is None and the
\* description is the English text with the chance placeholder replaced by
\* "0", whatever the other fields of the record are.
C2_OverrideExclusive ==
    Returned /\ move_data.name \in TableNames =>
        /\ Primary = Some(TableDescriptor(move_data.name))
        /\ Out.secondary_effect = None
        /\ Out.description = Replace(Template, BRACE_PLACEHOLDER, <<"0">>)
        /\ ~Contains(Out.description, BRACE_PLACEHOLDER)

C2_Witness ==
    /\ Returned
    /\ move_data.name = "swords-dance"
    /\ move_data.damage_class = "physical"
    /\ ~IsNone(move_data.power)
    /\ move_data.meta.flinch_chance > 0
    /\ move_data.effect_chance = Some(10)
    /\ Contains(Template, BRACE_PLACEHOLDER)
    /\ Contains(Lower(Template), KW_paralyze)
    /\ Val(Primary).type = "stat_change"
    /\ Out.secondary_effect = None

----------------------------------------------------------------------------
(* Properties of the secondary effect, checked under SpecSecondary *)

Secondary == Out.secondary_effect

\* C4: with all chances in 0..100, a secondary effect that is present has a
\* probability in 1..100; when it is absent the description is the English
\* text with the placeholder replaced by "0" or by the record's generic
\* effect chance.
C4_SecondaryProbability ==
    Returned =>
        /\ (~IsNone(Secondary) =>
                Val(Secondary).chance > 0 /\ Val(Secondary).chance <= 100)
        /\ (IsNone(Secondary) =>
                \/ Out.description = Replace(Template, BRACE_PLACEHOLDER, <<"0">>)
                \/ /\ ~IsNone(move_data.effect_chance)
                   /\ Out.description =
                        Replace(Template, BRACE_PLACEHOLDER, Str(Val(move_data.effect_chance))))

C4_Witness ==
    /\ Returned
    /\ ~IsOverride
    /\ IsNone(Secondary)
    /\ move_data.effect_chance = Some(100)
    /\ move_data.meta.ailment_chance = 0
    /\ Contains(Template, BRACE_PLACEHOLDER)
    /\ Contains(Out.description, <<"1", "0", "0">>)

Classifiable(status) == status \in MajorStatuses \cup VolatileStatuses
AilmentSource ==
    /\ ~IsNone(map_status_name(move_data.meta.ailment))
    /\ Classifiable(Val(map_status_name(move_data.meta.ailment)))
    /\ move_data.meta.ailment_chance > 0
StatSource ==
    /\ move_data.meta.stat_chance > 0
    /\ \E k \in 1..Len(move_data.stat_changes) :
            ~IsNone(map_stat_name(move_data.stat_changes[k].stat))
FlinchSource == move_data.meta.flinch_chance > 0

\* C10: for a non-override record the structured secondary effect comes from
\* the first of ailment chance > 0 (classifiable ailment), stat chance > 0
\* (a recognised stat change), flinch chance > 0 that applies, with that
\* source's chance; the other sources are dropped; and this is so for every
\* damage class and power, that is whatever the primary effect is.
C10_FirstCandidateWins ==
    Returned /\ ~IsOverride =>
        IF AilmentSource
        THEN /\ ~IsNone(Secondary)
             /\ Val(Secondary).chance = move_data.meta.ailment_chance
             /\ Val(Secondary).effect.type \in {"apply_status", "apply_volatile_status"}
             /\ Val(Secondary).effect.parameters.status =
                    Val(map_status_name(move_data.meta.ailment))
        ELSE IF StatSource
        THEN /\ ~IsNone(Secondary)
             /\ Val(Secondary).chance = move_data.meta.stat_chance
             /\ Val(Secondary).effect.type = "stat_change"
        ELSE IF FlinchSource
        THEN Secondary =
                Some([chance |-> move_data.meta.flinch_chance,
                      effect |-> [type |-> "apply_volatile_status",
                                  parameters |-> [status |-> "flinch",
                                                  target |-> "target"]]])
        ELSE Out.secondary_candidates = <<>>

C10_Witness ==
    /\ Returned
    /\ ~IsOverride
    /\ AilmentSource
    /\ StatSource
    /\ FlinchSource
    /\ move_data.meta.ailment_chance # move_data.meta.stat_chance
    /\ Val(Primary).type = "unknown_status"
    /\ Val(Secondary).chance = move_data.meta.ailment_chance
    /\ Len(Out.secondary_candidates) = 3

----------------------------------------------------------------------------
(* Properties of the text inference, checked under SpecText *)

MayCauseParalysis ==
    <<"m", "a", "y", " ", "c", "a", "u", "s", "e", " ", "p", "a", "r", "a", "l", "y", "s", "i", "s">>

HasEnglish == \E k \in 1..Len(move_data.effect_entries) :
                    move_data.effect_entries[k].language = "en"

NoStructuredSignal ==
    /\ ~IsOverride
    /\ (IsNone(map_status_name(move_data.meta.ailment)) \/ move_data.meta.ailment_chance = 0)
    /\ (move_data.stat_changes = <<>> \/ move_data.meta.stat_chance = 0)
    /\ move_data.meta.flinch_chance = 0

ParalysisTen ==
    Some([chance |-> 10,
          effect |-> [type |-> "apply_status",
                      parameters |-> [status |-> "paralysis", target |-> "target"]]])

\* C6 as stated: a non-override record with no structured signal, generic
\* effect chance 10 and an English text containing "may cause paralysis"
\* compiles to the secondary effect {10, apply_status paralysis on target}.
C6_MayCauseParalysis ==
    Returned /\ NoStructuredSignal /\ move_data.effect_chance = Some(10)
             /\ HasEnglish /\ Contains(Lower(Template), MayCauseParalysis) =>
        Secondary = ParalysisTen

\* C6 amended: a non-override record with no structured signal, generic
\* effect chance 10 and an English text that contains "paralyze" in any
\* letter case compiles to the secondary effect {10, apply_status paralysis
\* on target}.
C6_Paralyze ==
    Returned /\ NoStructuredSignal /\ move_data.effect_chance = Some(10)
             /\ HasEnglish /\ Contains(Lower(Template), KW_paralyze) =>
        Secondary = ParalysisTen

C6_Witness ==
    /\ Returned
    /\ NoStructuredSignal
    /\ move_data.effect_chance = Some(10)
    /\ move_data.effect_entries = <<Fr(TxtFrench), En(TxtParalyze)>>
    /\ Secondary = ParalysisTen
    /\ Contains(Out.description, <<"1", "0", "%">>)

----------------------------------------------------------------------------
(* Properties of the batch driver, checked under SpecBatch *)

RequestedIds == [k \in 1..Len(requests_log) |-> requests_log[k].move_id]

\* The request fetched a document with effect entries that compiles
Compiled(r) ==
    /\ r.response.kind = "json"
    /\ Val(r.response.data).effect_entries # <<>>
    /\ ~r.response.missing_key

LoopOver == pc \in {"write", "done"}

\* C7: a fetch or processing failure never ends the loop: the identifiers
\* are requested one after the other, all of them by the time the loop is
\* over; the output map then holds an entry under str(id) for exactly the
\* identifiers whose document was fetched, has effect entries and compiled;
\* and the map is written once, after the loop.
C7_BatchSurvivesFailures ==
    /\ RequestedIds = SubSeq(move_ids, 1, Len(requests_log))
    /\ (LoopOver =>
            /\ RequestedIds = move_ids
            /\ DOMAIN all_moves_data =
                  {Str(requests_log[k].move_id) :
                        k \in {j \in 1..Len(requests_log) : Compiled(requests_log[j])}}
            /\ \A k \in 1..Len(requests_log) :
                  Compiled(requests_log[k]) =>
                      /\ all_moves_data[Str(requests_log[k].move_id)].id =
                            requests_log[k].move_id
                      /\ all_moves_data[Str(requests_log[k].move_id)].name =
                            Val(requests_log[k].response.data).name)
    /\ (pc # "done" => stored = <<>>)
    /\ (pc = "done" => Len(stored) = 1 /\ stored[1].data = all_moves_data)

C7_Witness ==
    /\ pc = "done"
    /\ Len(move_ids) = 3
    /\ requests_log[1].response.kind = "request_exception"
    /\ requests_log[2].response.missing_key
    /\ Val(requests_log[2].response.data).effect_entries # <<>>
    /\ Compiled(requests_log[3])
    /\ DOMAIN all_moves_data = {<<"1", "0">>}
    /\ ~stored[1].io_error

\* C11: between any two consecutive requests to the data provider the
\* REQUEST_DELAY sleep has run, whatever the outcome of the earlier request
\* was (sleep_log[k] tells whether it ran after the k-th request).
C11_SleepBetweenRequests ==
    \A k \in 1..(Len(requests_log) - 1) : sleep_log[k]

----------------------------------------------------------------------------
(* The shadowed text rules, checked under SpecText *)

\* The secondary effect was synthesized by the text-inference fallback
Inferred ==
    /\ Returned
    /\ ~IsOverride
    /\ Out.secondary_candidates = <<>>
    /\ ~IsNone(Secondary)

AttackDrop ==
    [type |-> "stat_change",
     parameters |-> [changes |-> <<[stat |-> "attack", stages |-> -1]>>,
                     target |-> "target"]]
DefenseDrop ==
    [type |-> "stat_change",
     parameters |-> [changes |-> <<[stat |-> "defense", stages |-> -1]>>,
                     target |-> "target"]]

\* C12: a secondary effect synthesized by the text inference is never a
\* stat_change on special_attack or special_defense; when it is a stat
\* change and the text matches "lower.*special attack" it is the -1 attack
\* drop, and when the text matches "lower.*special defense" it is the -1
\* attack or -1 defense drop.
C12_SpecialRulesShadowed ==
    Inferred /\ Val(Secondary).effect.type = "stat_change" =>
        /\ \A k \in 1..Len(Val(Secondary).effect.parameters.changes) :
              Val(Secondary).effect.parameters.changes[k].stat
                  \notin {"special_attack", "special_defense"}
        /\ (SearchDotStar(Lower(Template), KW_lower, KW_special_attack) =>
                Val(Secondary).effect = AttackDrop)
        /\ (SearchDotStar(Lower(Template), KW_lower, KW_special_defense) =>
                Val(Secondary).effect \in {AttackDrop, DefenseDrop})

C12_Witness ==
    /\ Inferred
    /\ move_data.effect_entries = <<En(TxtLowerSpDef)>>
    /\ move_data.effect_chance = Some(100)
    /\ Secondary = Some([chance |-> 100, effect |-> DefenseDrop])

====
